---- MODULE Spec2Model ----
(***************************************************************************)
(* API-key lifecycle, verification and usage ledger of AI Tool Nest API.   *)
(*                                                                         *)
(* The store (tables api_keys and api_key_usage) is the state; every       *)
(* service method and every gated endpoint handler is one action.          *)
(* Strings are sequences of character codes (kept run-length encoded), so  *)
(* that a stored column can be compared with a raw key.  A raw key is a    *)
(* 43-character url-safe token; its SHA-256 hex digest has 64 characters.  *)
(*                                                                         *)
(* Randomness: generate_api_key() draws 256 random bits.  Two draws giving *)
(* the same 43 characters, or two keys with the same SHA-256 digest, are   *)
(* excluded as cryptographically negligible; two draws sharing their first *)
(* 8 characters (48 bits) are not excluded.                                *)
(***************************************************************************)
EXTENDS Integers, Sequences, FiniteSets, TLC

(* ---------------------------- bounds ----------------------------------- *)
MaxKeys == 3        \* rows of api_keys
MaxUsage == 2       \* rows of api_key_usage
MaxTime == 4        \* readings of the clock
MaxLedger == 11     \* rows of a ledger that is read whole
StoreKeys == 1      \* rows of api_keys when every service method runs
StoreUsage == 1     \* rows of api_key_usage when every service method runs
MaxSessions == 2    \* database sessions open at the same time
StoreTime == 3      \* readings of the clock when every service method runs

(* ------------------------ program constants ---------------------------- *)
TokenBytes == 32    \* secrets.token_urlsafe(32)
PrefixLen == 8      \* api_key[:8]
DigestLen == 64     \* hashlib.sha256(...).hexdigest()
NULL == -1          \* None of an Optional[datetime] / Optional[int]
MinNameLen == 1     \* APIKeyCreate.name: min_length
MaxNameLen == 100   \* APIKeyCreate.name: max_length

KeyLen == (4 * TokenBytes + 2) \div 3   \* base64url without padding: 43

(* ------------------------------- strings ------------------------------- *)
\* A string is kept run-length encoded: the run <<c, n>> stands for n copies
\* of the character c, and adjacent runs have different characters, so two
\* strings are equal exactly when their encodings are.
Chars(c, n) == IF n <= 0 THEN <<>> ELSE << <<c, n>> >>

Concat(a, b) ==
    IF a = <<>> THEN b
    ELSE IF b = <<>> THEN a
    ELSE IF a[Len(a)][1] = b[1][1]
         THEN SubSeq(a, 1, Len(a) - 1)
              \o << <<b[1][1], a[Len(a)][2] + b[1][2]>> >> \o Tail(b)
         ELSE a \o b

RECURSIVE StrLen(_)
StrLen(s) == IF s = <<>> THEN 0 ELSE Head(s)[2] + StrLen(Tail(s))

\* api_key[:n]
RECURSIVE Slice(_, _)
Slice(s, n) ==
    IF n <= 0 \/ s = <<>> THEN <<>>
    ELSE IF Head(s)[2] >= n THEN << <<Head(s)[1], n>> >>
         ELSE <<Head(s)>> \o Slice(Tail(s), n - Head(s)[2])

Users == {1, 2}
Prefixes == {10, 11}
Tails == 1 .. MaxKeys
Labels == {Concat(Chars(3, 1), Chars(9, 1))}
\* The names a caller may send: a usual one, the empty one, one too long.
NameInputs == Labels \cup {<<>>, Chars(3, MaxNameLen + 1)}
ACTIVE == "active"
REVOKED == "revoked"
EXPIRED == "expired"

(* ---------------------------- Secret codec ----------------------------- *)
\* The raw key whose first PrefixLen characters are p and whose remaining
\* characters are t.
Key(p, t) == Concat(Chars(p, PrefixLen), Chars(t, KeyLen - PrefixLen))

\* Every raw key a caller may present: issued ones, and guesses.
KeySpace == {Key(p, t) : p \in Prefixes, t \in Tails}

\* A digest of the characters of s, folded one character at a time.
RECURSIVE Digest(_, _)
Digest(s, h) ==
    IF s = <<>> THEN h
    ELSE Digest(Concat(Chars(Head(s)[1], Head(s)[2] - 1), Tail(s)),
                (h * 67 + Head(s)[1] + 1) % 65521)

HexDigit(n, i) == (n \div (16 ^ (4 - i))) % 16

\* hashlib.sha256(api_key.encode()).hexdigest(): deterministic, DigestLen
\* hexadecimal characters, injective on KeySpace.
HexDigest(s) ==
    LET n == Digest(s, 7)
        part(i) == Chars(HexDigit(n, i), DigestLen \div 4)
    IN  Concat(Concat(part(1), part(2)), Concat(part(3), part(4)))

\* The digests of the keys of KeySpace, computed once.
Sha256 == [k \in KeySpace |-> HexDigest(k)]

get_api_key_hash(api_key) == Sha256[api_key]

\* No two keys of KeySpace have the same digest.
DigestInjective ==
    \A a \in KeySpace, b \in KeySpace : Sha256[a] = Sha256[b] => a = b

verify_api_key(api_key, stored_hash) == get_api_key_hash(api_key) = stored_hash

\* The number of leading characters in which a and b agree. Adjacent runs
\* have different characters, so runs of unequal length part right after
\* the shorter one.
RECURSIVE CommonPrefix(_, _)
CommonPrefix(a, b) ==
    IF a = <<>> \/ b = <<>> THEN 0
    ELSE IF Head(a)[1] # Head(b)[1] THEN 0
    ELSE IF Head(a)[2] # Head(b)[2]
         THEN (IF Head(a)[2] < Head(b)[2] THEN Head(a)[2] ELSE Head(b)[2])
         ELSE Head(a)[2] + CommonPrefix(Tail(a), Tail(b))

\* The characters the `==` of two str values examines: none when the lengths
\* differ, otherwise those up to and including the first that differs.
StrEqExamined(a, b) ==
    IF StrLen(a) # StrLen(b) THEN 0
    ELSE IF a = b THEN StrLen(a)
    ELSE CommonPrefix(a, b) + 1

(* ------------------------------- state --------------------------------- *)
VARIABLES
    keys,       \* table api_keys: sequence of rows, row i has id i
    usage,      \* table api_key_usage: sequence of rows
    now,        \* last reading of datetime.utcnow()
    issued,     \* what callers hold: key id -> raw key returned at creation
    revoked,    \* ids for which revoke_api_key has returned the row
    disclosed,  \* key id -> number of responses that contained its raw key
    resp,       \* the last operation: its name, inputs and result
    sessions    \* AsyncSession -> the method it is inside and its local values

vars == <<keys, usage, now, issued, revoked, disclosed, resp, sessions>>

NoResp == [op |-> "none"]

\* One AsyncSession per request (get_session); a session that is inside no
\* method holds nothing.
Sessions == 1 .. MaxSessions

Idle == [pc |-> "idle", op |-> "none"]

\* The local values of a session that has entered a method, before any is
\* assigned.
Entered ==
    [pc |-> "idle", op |-> "none", api_key |-> <<>>, key_id |-> 0,
     user_id |-> 0, db_key |-> <<>>, t |-> NULL,
     result |-> [kind |-> "none", id |-> 0],
     read_now |-> 0, read_revoked |-> {}, commit_revoked |-> {}]

NoSessions == [s \in Sessions |-> Idle]

Init ==
    /\ keys = <<>>
    /\ usage = <<>>
    /\ now = 0
    /\ issued = <<>>
    /\ revoked = {}
    /\ disclosed = <<>>
    /\ resp = NoResp
    /\ sessions = NoSessions

(* ------------------------- store query helpers ------------------------- *)
\* Result.scalar_one_or_none() over the set of matching row ids.
scalar_one_or_none(rows) ==
    IF rows = {} THEN [kind |-> "none", id |-> 0]
    ELSE IF Cardinality(rows) = 1
         THEN [kind |-> "one", id |-> CHOOSE i \in rows : TRUE]
         ELSE [kind |-> "MultipleResultsFound", id |-> 0]

\* The columns of a row that a response schema APIKeyResponse carries.
APIKeyResponse(k) ==
    [id |-> k.id, name |-> k.name, key_prefix |-> k.key_prefix,
     status |-> k.status, created_at |-> k.created_at,
     last_used_at |-> k.last_used_at, revoked_at |-> k.revoked_at]

\* The string-valued fields of a set of response items.
ItemStrings(items) ==
    UNION {{it.name, it.key_prefix} \cup
           (IF "api_key" \in DOMAIN it THEN {it.api_key} ELSE {}) : it \in items}

\* Count the responses in which each issued raw key appears.
Disclose(iss, strings) ==
    [i \in DOMAIN iss |->
        (IF i \in DOMAIN disclosed THEN disclosed[i] ELSE 0)
        + (IF iss[i] \in strings THEN 1 ELSE 0)]

(* --------------------------- create_api_key ---------------------------- *)
\* generate_api_key(): a fresh token; its first 8 characters may repeat.
generate_api_key(p) == Key(p, Len(keys) + 1)

\* A row that keeps the raw key where its digest belongs.
NewRow_RawHash(id, user_id, name, api_key, t) ==
    [id |-> id, user_id |-> user_id, name |-> name,
     key_hash |-> api_key,
     key_prefix |-> Slice(api_key, PrefixLen),
     status |-> ACTIVE, created_at |-> t,
     last_used_at |-> NULL, revoked_at |-> NULL]

\* A row whose prefix column is not cut to PrefixLen characters.
NewRow_WholePrefix(id, user_id, name, api_key, t) ==
    [id |-> id, user_id |-> user_id, name |-> name,
     key_hash |-> get_api_key_hash(api_key),
     key_prefix |-> api_key,
     status |-> ACTIVE, created_at |-> t,
     last_used_at |-> NULL, revoked_at |-> NULL]

\* A row that is born with a last_used_at.
NewRow_Touched(id, user_id, name, api_key, t) ==
    [id |-> id, user_id |-> user_id, name |-> name,
     key_hash |-> get_api_key_hash(api_key),
     key_prefix |-> Slice(api_key, PrefixLen),
     status |-> ACTIVE, created_at |-> t,
     last_used_at |-> t, revoked_at |-> NULL]

NewRow(id, user_id, name, api_key, t) ==
    [id |-> id, user_id |-> user_id, name |-> name,
     key_hash |-> get_api_key_hash(api_key),
     key_prefix |-> Slice(api_key, PrefixLen),
     status |-> ACTIVE, created_at |-> t,
     last_used_at |-> NULL, revoked_at |-> NULL]

APIKeyCreateResponse(k, api_key) ==
    [id |-> k.id, name |-> k.name, key_prefix |-> k.key_prefix,
     status |-> k.status, created_at |-> k.created_at,
     last_used_at |-> k.last_used_at, revoked_at |-> k.revoked_at,
     api_key |-> api_key]

\* The request schema APIKeyCreate accepts the name.
APIKeyCreate(name) == StrLen(name) >= MinNameLen /\ StrLen(name) <= MaxNameLen

\* The endpoint's answer when the request body fails its schema.
RequestValidationError(user_id, name) ==
    /\ resp' = [op |-> "create", user_id |-> user_id, name |-> name,
                status |-> 422, id |-> 0, items |-> {}]
    /\ disclosed' = Disclose(issued, {})
    /\ UNCHANGED <<sessions, keys, usage, now, issued, revoked>>

create_api_key(user_id, name, p) ==
    /\ Len(keys) < MaxKeys
    /\ now < MaxTime
    /\ LET api_key == generate_api_key(p)
           id == Len(keys) + 1
           db_key == NewRow(id, user_id, name, api_key, now + 1)
           body == APIKeyCreateResponse(db_key, api_key)
       IN  /\ keys' = Append(keys, db_key)
           /\ issued' = Append(issued, api_key)
           /\ disclosed' = Disclose(issued', ItemStrings({body}))
           /\ resp' = [op |-> "create", user_id |-> user_id, name |-> name,
                       status |-> 200, id |-> id, items |-> {body}]
    /\ now' = now + 1
    /\ UNCHANGED <<sessions, usage, revoked>>

(* ------------------------ verify_and_update_key ------------------------ *)
\* select(APIKey).where(key_prefix == api_key[:8], status == ACTIVE)
ActiveByPrefix(ks, api_key) ==
    {i \in DOMAIN ks : /\ ks[i].key_prefix = Slice(api_key, PrefixLen)
                       /\ ks[i].status = ACTIVE}

\* What verify_and_update_key returns: the row ("ok"), None ("none"), or the
\* exception scalar_one_or_none raises.
VerifyResult(ks, api_key) ==
    LET db_key == scalar_one_or_none(ActiveByPrefix(ks, api_key))
    IN  IF db_key.kind = "MultipleResultsFound"
        THEN [kind |-> "MultipleResultsFound", id |-> 0]
        ELSE IF db_key.kind = "one"
                /\ verify_api_key(api_key, ks[db_key.id].key_hash)
             THEN [kind |-> "ok", id |-> db_key.id]
             ELSE [kind |-> "none", id |-> 0]

\* A touch of the row the prefix query found, whatever its hash.
VerifyTouch_OnPrefix(ks, api_key, t) ==
    LET db_key == scalar_one_or_none(ActiveByPrefix(ks, api_key))
    IN  IF db_key.kind = "one"
        THEN [ks EXCEPT ![db_key.id].last_used_at = t] ELSE ks

\* The table after verify_and_update_key read the clock as t.
VerifyTouch(ks, api_key, t) ==
    LET r == VerifyResult(ks, api_key)
    IN  IF r.kind = "ok" THEN [ks EXCEPT ![r.id].last_used_at = t] ELSE ks

\* The characters of the two fingerprints that verify_api_key examines, NULL
\* when the prefix query gave no row to compare with.
VerifyExamined(ks, api_key) ==
    LET db_key == scalar_one_or_none(ActiveByPrefix(ks, api_key))
    IN  IF db_key.kind = "one"
        THEN StrEqExamined(get_api_key_hash(api_key), ks[db_key.id].key_hash)
        ELSE NULL

verify_and_update_key(api_key) ==
    LET r == VerifyResult(keys, api_key)
    IN  /\ r.kind = "ok" => now < MaxTime
        /\ keys' = VerifyTouch(keys, api_key, now + 1)
        /\ now' = IF r.kind = "ok" THEN now + 1 ELSE now
        /\ resp' = [op |-> "verify", api_key |-> api_key, result |-> r,
                    examined |-> VerifyExamined(keys, api_key),
                    items |-> IF r.kind = "ok"
                              THEN {APIKeyResponse(keys'[r.id])} ELSE {}]
        /\ disclosed' = Disclose(issued, ItemStrings(resp'.items))
        /\ UNCHANGED <<sessions, usage, issued, revoked>>

(* -------------------------- get_user_by_api_key ------------------------ *)
\* select(APIKey).where(key_hash == get_api_key_hash(api_key),
\*                      key_prefix == api_key[:8], revoked_at IS NULL)
ByHashAndPrefix(ks, api_key) ==
    {i \in DOMAIN ks : /\ ks[i].key_hash = get_api_key_hash(api_key)
                       /\ ks[i].key_prefix = Slice(api_key, PrefixLen)
                       /\ ks[i].revoked_at = NULL}

\* What get_user_by_api_key returns: the owner of the row found ("ok"), None
\* ("none"), or the exception scalar_one_or_none raises.
GetUserResult(ks, api_key) ==
    LET db_key == scalar_one_or_none(ByHashAndPrefix(ks, api_key))
    IN  IF db_key.kind = "MultipleResultsFound"
        THEN [kind |-> "MultipleResultsFound", id |-> 0]
        ELSE IF db_key.kind = "one"
             THEN [kind |-> "ok", id |-> db_key.id]
             ELSE [kind |-> "none", id |-> 0]

\* The table after get_user_by_api_key read the clock as t.
GetUserTouch(ks, api_key, t) ==
    LET r == GetUserResult(ks, api_key)
    IN  IF r.kind = "ok" THEN [ks EXCEPT ![r.id].last_used_at = t] ELSE ks

get_user_by_api_key(api_key) ==
    LET r == GetUserResult(keys, api_key)
    IN  /\ r.kind = "ok" => now < MaxTime
        /\ keys' = GetUserTouch(keys, api_key, now + 1)
        /\ now' = IF r.kind = "ok" THEN now + 1 ELSE now
        /\ resp' = [op |-> "get_user", api_key |-> api_key, result |-> r,
                    user |-> IF r.kind = "ok" THEN keys[r.id].user_id ELSE NULL,
                    items |-> {}]
        /\ disclosed' = Disclose(issued, {})
        /\ UNCHANGED <<sessions, usage, issued, revoked>>

(* ---------------------------- revoke_api_key --------------------------- *)
\* select(APIKey).where(id == key_id, user_id == user_id, revoked_at IS NULL)
\* The query without its revoked_at filter.
RevokeRows_AnyState(ks, key_id, user_id) ==
    {i \in DOMAIN ks : ks[i].id = key_id /\ ks[i].user_id = user_id}

\* The query without its owner filter.
RevokeRows_AnyOwner(ks, key_id, user_id) ==
    {i \in DOMAIN ks : ks[i].id = key_id /\ ks[i].revoked_at = NULL}

RevokeRows(ks, key_id, user_id) ==
    {i \in DOMAIN ks : /\ ks[i].id = key_id
                       /\ ks[i].user_id = user_id
                       /\ ks[i].revoked_at = NULL}

\* The assignment of status without the one of revoked_at.
RevokeUpdate_StatusOnly(ks, i, t) == [ks EXCEPT ![i].status = REVOKED]

\* api_key.status = KeyStatus.REVOKED; api_key.revoked_at = datetime.utcnow();
\* session.commit(), on row i with the clock read as t.
RevokeUpdate(ks, i, t) ==
    [ks EXCEPT ![i].status = REVOKED, ![i].revoked_at = t]

revoke_api_key(key_id, user_id) ==
    LET api_key == scalar_one_or_none(RevokeRows(keys, key_id, user_id))
    IN  /\ api_key.kind = "one" => now < MaxTime
        /\ keys' = IF api_key.kind = "one"
                   THEN RevokeUpdate(keys, api_key.id, now + 1)
                   ELSE keys
        /\ now' = IF api_key.kind = "one" THEN now + 1 ELSE now
        /\ revoked' = IF api_key.kind = "one"
                      THEN revoked \cup {api_key.id} ELSE revoked
        /\ resp' = [op |-> "revoke", key_id |-> key_id, user_id |-> user_id,
                    status |-> IF api_key.kind = "one" THEN 200 ELSE 404,
                    items |-> IF api_key.kind = "one"
                              THEN {APIKeyResponse(keys'[api_key.id])} ELSE {}]
        /\ disclosed' = Disclose(issued, ItemStrings(resp'.items))
        /\ UNCHANGED <<sessions, usage, issued>>

(* --------------------------- get_user_api_keys ------------------------- *)
\* select(APIKey).where(user_id == user_id, revoked_at IS NULL)
\* The query without its revoked_at filter.
OwnerRows_AnyState(ks, user_id) == {i \in DOMAIN ks : ks[i].user_id = user_id}

OwnerRows(ks, user_id) ==
    {i \in DOMAIN ks : ks[i].user_id = user_id /\ ks[i].revoked_at = NULL}

\* result.scalars().all() of a query without ORDER BY: the matching rows in
\* an order the store chooses.
Orders(rows) ==
    {o \in [1 .. Cardinality(rows) -> rows] :
        \A i, j \in 1 .. Cardinality(rows) : i # j => o[i] # o[j]}

\* APIKeyList.api_keys built from the rows in the order they came.
APIKeyList(ks, order) == [i \in DOMAIN order |-> APIKeyResponse(ks[order[i]])]

get_user_api_keys(user_id) ==
    \E order \in Orders(OwnerRows(keys, user_id)) :
        /\ resp' = [op |-> "list", user_id |-> user_id, status |-> 200,
                    api_keys |-> APIKeyList(keys, order),
                    items |-> {APIKeyResponse(keys[i]) : i \in OwnerRows(keys, user_id)}]
        /\ disclosed' = Disclose(issued, ItemStrings(resp'.items))
        /\ UNCHANGED <<sessions, keys, usage, now, issued, revoked>>

(* --------------------------- log_api_key_usage ------------------------- *)
APIKeyUsage(api_key_id, endpoint, method, status_code, latency, ip, ua, t) ==
    [api_key_id |-> api_key_id, endpoint |-> endpoint, method |-> method,
     status_code |-> status_code, response_time |-> latency,
     ip_address |-> ip, user_agent |-> ua, created_at |-> t]

\* The commit writing the table anew with the one record.
log_api_key_usage_Replace(us, row, db) == IF db = "ok" THEN <<row>> ELSE us

\* The table api_key_usage after session.add(usage_log); session.commit().
\* db = "fail": the store raises during the commit and the row is not kept.
log_api_key_usage(us, row, db) == IF db = "ok" THEN Append(us, row) ELSE us

\* log_api_usage: one call of log_api_key_usage with the values a handler
\* passes.
log_api_usage(api_key_id, endpoint, method, status_code, latency, ip, ua, db) ==
    LET row == APIKeyUsage(api_key_id, endpoint, method, status_code, latency,
                           ip, ua, now + 1)
    IN  /\ Len(usage) < MaxUsage
        /\ now < MaxTime
        /\ usage' = log_api_key_usage(usage, row, db)
        /\ now' = IF db = "ok" THEN now + 1 ELSE now
        /\ resp' = [op |-> "log", key_id |-> api_key_id, items |-> {},
                    db |-> db, appended |-> Len(usage') - Len(usage)]
        /\ disclosed' = Disclose(issued, {})
        /\ UNCHANGED <<sessions, keys, issued, revoked>>

(* -------------------------- get_key_usage_stats ------------------------ *)
\* The ownership query with a revoked_at filter added.
StatsKeyRows_NotRevoked(ks, key_id, user_id) ==
    {i \in DOMAIN ks : /\ ks[i].id = key_id
                       /\ ks[i].user_id = user_id
                       /\ ks[i].revoked_at = NULL}

\* select(APIKey).where(id == key_id, user_id == user_id)
StatsKeyRows(ks, key_id, user_id) ==
    {i \in DOMAIN ks : ks[i].id = key_id /\ ks[i].user_id = user_id}

\* The usage query without its api_key_id filter.
UsageLogs_AllKeys(us, key_id) == us

\* select(APIKeyUsage).where(api_key_id == key_id), in insertion order
UsageLogs(us, key_id) == SelectSeq(us, LAMBDA u : u.api_key_id = key_id)

\* sum(log.response_time for log in usage_logs)
RECURSIVE SumResponseTime(_)
SumResponseTime(logs) ==
    IF logs = <<>> THEN 0
    ELSE Head(logs).response_time + SumResponseTime(Tail(logs))

\* sorted(logs, key=created_at, reverse=True): stable, newest first.
RECURSIVE InsertDesc(_, _)
InsertDesc(sorted, x) ==
    IF sorted = <<>> THEN <<x>>
    ELSE IF Head(sorted).created_at >= x.created_at
         THEN <<Head(sorted)>> \o InsertDesc(Tail(sorted), x)
         ELSE <<x>> \o sorted

RECURSIVE SortedDesc(_)
SortedDesc(logs) ==
    IF logs = <<>> THEN <<>>
    ELSE InsertDesc(SortedDesc(SubSeq(logs, 1, Len(logs) - 1)), logs[Len(logs)])

RecentLimit == 10

\* The slice that keeps the whole list.
Take_All(seq, n) == seq

\* seq[:n]
Take(seq, n) == SubSeq(seq, 1, IF n < Len(seq) THEN n ELSE Len(seq))

APIKeyUsageEntry(log) ==
    [endpoint |-> log.endpoint, method |-> log.method,
     status_code |-> log.status_code, response_time |-> log.response_time,
     ip_address |-> log.ip_address, user_agent |-> log.user_agent,
     created_at |-> log.created_at]

\* A float is kept as the quotient num / den; a division by zero raises.
ZeroDivisionError == [num |-> 0, den |-> 0]
Float(num, den) == [num |-> num, den |-> den]
Divide(num, den) == IF den = 0 THEN ZeroDivisionError ELSE Float(num, den)

\* An empty dict.
EmptyDict == [e \in {} |-> 0]

\* The loop that sets every endpoint's entry to 1 instead of adding 1.
RECURSIVE CountByEndpoint_Reset(_, _)
CountByEndpoint_Reset(logs, acc) ==
    IF logs = <<>> THEN acc
    ELSE LET e == Head(logs).endpoint
         IN  CountByEndpoint_Reset(Tail(logs),
                 [x \in DOMAIN acc \cup {e} |-> IF x = e THEN 1 ELSE acc[x]])

\* for log in usage_logs:
\*     usage_by_endpoint[log.endpoint] = usage_by_endpoint.get(log.endpoint, 0) + 1
RECURSIVE CountByEndpoint(_, _)
CountByEndpoint(logs, acc) ==
    IF logs = <<>> THEN acc
    ELSE LET e == Head(logs).endpoint
             n == IF e \in DOMAIN acc THEN acc[e] ELSE 0
         IN  CountByEndpoint(Tail(logs),
                 [x \in DOMAIN acc \cup {e} |-> IF x = e THEN n + 1 ELSE acc[x]])

\* The statistics computed from a list of usage rows.
ComputedStats(logs) ==
    LET total_requests == Len(logs)
        successful_requests == Len(SelectSeq(logs, LAMBDA l : l.status_code < 400))
        recent == Take(SortedDesc(logs), RecentLimit)
    IN  [total_requests |-> total_requests,
         successful_requests |-> successful_requests,
         failed_requests |-> total_requests - successful_requests,
         average_response_time |-> Divide(SumResponseTime(logs), total_requests),
         usage_by_endpoint |-> CountByEndpoint(logs, EmptyDict),
         recent_usage |-> [i \in DOMAIN recent |-> APIKeyUsageEntry(recent[i])]]

\* The statistics without the early return for an empty list.
APIKeyUsageStats_NoEmptyCase(logs) == ComputedStats(logs)

\* `if not usage_logs: return APIKeyUsageStats(0, 0, 0, 0.0, {}, [])`, else
\* the computed statistics.
APIKeyUsageStats(logs) ==
    IF logs = <<>>
    THEN [total_requests |-> 0, successful_requests |-> 0,
          failed_requests |-> 0, average_response_time |-> Float(0, 1),
          usage_by_endpoint |-> EmptyDict, recent_usage |-> <<>>]
    ELSE ComputedStats(logs)

\* The client-supplied strings carried by a stats body.
StatsStrings(stats) ==
    UNION {{stats.recent_usage[i].ip_address, stats.recent_usage[i].user_agent}
           : i \in DOMAIN stats.recent_usage}

get_key_usage_stats(key_id, user_id) ==
    LET found == scalar_one_or_none(StatsKeyRows(keys, key_id, user_id))
        stats == APIKeyUsageStats(UsageLogs(usage, key_id))
        raised == stats.average_response_time = ZeroDivisionError
    IN  /\ resp' = IF found.kind # "one"
                   THEN [op |-> "stats", key_id |-> key_id, user_id |-> user_id,
                         status |-> 404, items |-> {}]
                   ELSE IF raised
                   THEN [op |-> "stats", key_id |-> key_id, user_id |-> user_id,
                         status |-> 500, items |-> {}]
                   ELSE [op |-> "stats", key_id |-> key_id, user_id |-> user_id,
                         status |-> 200, items |-> {}, stats |-> stats]
        /\ disclosed' = Disclose(issued, IF found.kind = "one" /\ ~raised
                                         THEN StatsStrings(stats) ELSE {})
        /\ UNCHANGED <<sessions, keys, usage, now, issued, revoked>>

(* ------------------- outcomes of a request handler --------------------- *)
\* How control leaves a handler: a returned response or a raised exception.
Return(status) == [kind |-> "return", status |-> status, detail |-> "response"]
HTTPException(status, detail) ==
    [kind |-> "HTTPException", status |-> status, detail |-> detail]
Raise(name) == [kind |-> name, status |-> 0, detail |-> name]

\* Exception classes that `except Exception` catches; CancelledError derives
\* from BaseException and is not among them.
ExceptionSubclasses ==
    {"Exception", "HTTPException", "TextSummarizerException",
     "TextParaphraserException", "ImageToTextException", "TimeoutError",
     "DBError", "MultipleResultsFound"}

\* What the caller observes: the framework turns a return or an HTTPException
\* into a response, any other Exception into a plain 500, and sends nothing
\* when the task was cancelled.
Deliver(exit) ==
    IF exit.kind \in {"return", "HTTPException"}
    THEN [kind |-> "response", status |-> exit.status, detail |-> exit.detail]
    ELSE IF exit.kind \in ExceptionSubclasses
         THEN [kind |-> "response", status |-> 500,
               detail |-> "Internal Server Error"]
         ELSE [kind |-> "aborted", status |-> 0, detail |-> exit.kind]

\* What the awaited AI service does in one request.
ServiceOutcomes == {"ok", "ServiceException", "Exception", "CancelledError"}
ImageServiceOutcomes == ServiceOutcomes \cup {"TimeoutError"}
DbOutcomes == {"ok", "fail"}

Ips == {Concat(Chars(1, 2), Chars(0, 1))}
UserAgents == {Concat(Chars(2, 1), Chars(8, 1))}
Latencies == {2}

(* ---------------------- get_current_user_by_api_key -------------------- *)
get_current_user_by_api_key(ks, api_key) ==
    LET key == VerifyResult(ks, api_key)
    IN  IF key.kind = "MultipleResultsFound"
        THEN [kind |-> "raise", id |-> 0, exit |-> Raise("MultipleResultsFound")]
        ELSE IF key.kind = "none" \/ ks[key.id].user_id \notin Users
             THEN [kind |-> "raise", id |-> 0,
                   exit |-> HTTPException(401, "Invalid API key")]
             ELSE [kind |-> "ok", id |-> key.id, exit |-> Return(200)]

(* --------------------- summarize_text / paraphrase_text ---------------- *)
\* The try/except part of summarize_text: the value of status_code when the
\* finally block starts, and the pending return or exception.
SummarizeTry(svc) ==
    IF svc = "ok" THEN [logs |-> TRUE, status_code |-> 200, exit |-> Return(200)]
    ELSE IF svc = "ServiceException"
    THEN [logs |-> TRUE, status_code |-> 422,
          exit |-> HTTPException(422, "TextSummarizerException")]
    ELSE IF svc \in ExceptionSubclasses
    THEN [logs |-> TRUE, status_code |-> 500,
          exit |-> HTTPException(500, "Internal server error")]
    ELSE [logs |-> TRUE, status_code |-> 200, exit |-> Raise(svc)]

ParaphraseTry(svc) ==
    IF svc = "ok" THEN [logs |-> TRUE, status_code |-> 200, exit |-> Return(200)]
    ELSE IF svc = "ServiceException"
    THEN [logs |-> TRUE, status_code |-> 422,
          exit |-> HTTPException(422, "TextParaphraserException")]
    ELSE IF svc \in ExceptionSubclasses
    THEN [logs |-> TRUE, status_code |-> 500,
          exit |-> HTTPException(500, "Internal server error")]
    ELSE [logs |-> TRUE, status_code |-> 200, exit |-> Raise(svc)]

\* The finally block: `await log_api_usage(...)`; an exception raised there
\* replaces the pending return or exception.
Finally(try, db) == IF db = "fail" THEN Raise("DBError") ELSE try.exit

(* ------------------------------ image_to_text -------------------------- *)
\* A request to /image-to-text: JSON or form body, which image sources it
\* carries, and whether mode/detail_level, the file type and the file size
\* are acceptable.
ImageRequest(json, url, file, enums_ok, mime_ok, size_ok) ==
    [json |-> json, url |-> url, file |-> file, enums_ok |-> enums_ok,
     mime_ok |-> mime_ok, size_ok |-> size_ok]

ImageRequests ==
    {ImageRequest(TRUE, FALSE, FALSE, TRUE, TRUE, TRUE),
     ImageRequest(TRUE, TRUE, FALSE, FALSE, TRUE, TRUE),
     ImageRequest(TRUE, TRUE, FALSE, TRUE, TRUE, TRUE),
     ImageRequest(FALSE, TRUE, FALSE, FALSE, TRUE, TRUE),
     ImageRequest(FALSE, FALSE, FALSE, TRUE, TRUE, TRUE),
     ImageRequest(FALSE, TRUE, TRUE, TRUE, TRUE, TRUE),
     ImageRequest(FALSE, TRUE, FALSE, TRUE, TRUE, TRUE),
     ImageRequest(FALSE, FALSE, TRUE, TRUE, FALSE, TRUE),
     ImageRequest(FALSE, FALSE, TRUE, TRUE, TRUE, FALSE),
     ImageRequest(FALSE, FALSE, TRUE, TRUE, TRUE, TRUE)}

\* The outer try/except of image_to_text, entered with status_code = 200.
\* raised: the exception class raised in the try body, or "ok".
ImageExcept(raised) ==
    IF raised = "ok"
    THEN [logs |-> TRUE, status_code |-> 200, exit |-> Return(200)]
    ELSE IF raised = "ImageToTextException"
    THEN [logs |-> TRUE, status_code |-> 422,
          exit |-> HTTPException(422, "ImageToTextException")]
    ELSE IF raised = "TimeoutError"
    THEN [logs |-> TRUE, status_code |-> 504,
          exit |-> HTTPException(504, "Request timed out")]
    ELSE IF raised \in ExceptionSubclasses
    THEN [logs |-> TRUE, status_code |-> 500,
          exit |-> HTTPException(500, "Internal server error")]
    ELSE [logs |-> TRUE, status_code |-> 200, exit |-> Raise(raised)]

\* What the try body raises.
ImageBody(url, req, svc) ==
    LET service == IF svc = "ServiceException" THEN "ImageToTextException"
                   ELSE svc
    IN  IF url THEN service
        ELSE IF ~req.mime_ok THEN "HTTPException"      \* 415
        ELSE IF ~req.size_ok THEN "HTTPException"      \* 413
        ELSE service

\* The handler up to its finally block.  logs = FALSE: the handler left
\* before the try statement whose finally block writes the usage record.
ImageToTextTry(req, svc) ==
    IF req.json /\ ~req.url
    THEN [logs |-> FALSE, status_code |-> 422,
          exit |-> HTTPException(422, "JSON request must include 'image_url' field")]
    ELSE IF ~req.enums_ok
    THEN [logs |-> FALSE, status_code |-> 422,
          exit |-> HTTPException(422, "Invalid mode or detail_level")]
    ELSE LET image_url == req.url
             image_file == IF req.json THEN FALSE ELSE req.file
         IN  IF (~image_url /\ ~image_file) \/ (image_url /\ image_file)
             THEN [logs |-> FALSE, status_code |-> 400, exit |-> Return(400)]
             ELSE ImageExcept(ImageBody(image_url, req, svc))

(* --------------------------- a gated request --------------------------- *)
\* The dependency rejected the key: the handler is never entered.
Rejected(op, api_key, auth) ==
    /\ resp' = [op |-> op, api_key |-> api_key, verified |-> FALSE,
                key_id |-> 0, items |-> {}, db |-> "ok", appended |-> 0,
                status_code |-> 0,
                original |-> Deliver(auth.exit), outcome |-> Deliver(auth.exit)]
    /\ disclosed' = Disclose(issued, {})
    /\ UNCHANGED <<sessions, keys, usage, now, issued, revoked>>

\* The seconds the dependency get_current_user_by_api_key takes.
VerifyTimes == {1}

\* The readings of time() in a request, in seconds since the request arrived.
\* FastAPI resolves Depends(get_current_user_by_api_key) before it calls the
\* handler; the body then reads start_time, and the finally block reads
\* time() again once the handler has worked for `work` seconds.
RequestClock(verify, work) ==
    [verified |-> verify, start_time |-> verify, finally |-> verify + work]

\* response_time = time() - start_time
ResponseTime(clock) == clock.finally - clock.start_time

\* The dependency accepted the key (touching last_used_at), the handler ran
\* to `try`, and its finally block, if reached, called log_api_usage.
\* latency: the seconds the handler works between its two readings of time().
Handled(op, endpoint, api_key, key_id, try, db, ip, ua, latency) ==
    \E verify \in VerifyTimes :
    LET clock == RequestClock(verify, latency)
        row == APIKeyUsage(key_id, endpoint, "POST", try.status_code,
                           ResponseTime(clock), ip, ua, now + 2)
        exit == IF try.logs THEN Finally(try, db) ELSE try.exit
    IN  /\ now + 2 <= MaxTime
        /\ Len(usage) < MaxUsage
        /\ keys' = VerifyTouch(keys, api_key, now + 1)
        /\ usage' = IF try.logs THEN log_api_key_usage(usage, row, db) ELSE usage
        /\ now' = IF Len(usage') > Len(usage) THEN now + 2 ELSE now + 1
        /\ resp' = [op |-> op, api_key |-> api_key, verified |-> TRUE,
                    key_id |-> key_id, items |-> {},
                    db |-> IF try.logs THEN db ELSE "ok",
                    appended |-> Len(usage') - Len(usage),
                    status_code |-> try.status_code, clock |-> clock,
                    original |-> Deliver(try.exit), outcome |-> Deliver(exit)]
        /\ disclosed' = Disclose(issued, {})
        /\ UNCHANGED <<sessions, issued, revoked>>

\* The ways each handler can reach its end, over all requests and all
\* behaviours of the AI service.
SummarizeTries == {SummarizeTry(svc) : svc \in ServiceOutcomes}
ParaphraseTries == {ParaphraseTry(svc) : svc \in ServiceOutcomes}
ImageToTextTries ==
    {ImageToTextTry(req, svc) : req \in ImageRequests, svc \in ImageServiceOutcomes}

summarize_text(api_key) ==
    LET auth == get_current_user_by_api_key(keys, api_key)
    IN  IF auth.kind # "ok" THEN Rejected("summarize", api_key, auth)
        ELSE \E try \in SummarizeTries, db \in DbOutcomes, ip \in Ips,
                ua \in UserAgents, lat \in Latencies :
                Handled("summarize", "/summarize", api_key, auth.id,
                        try, db, ip, ua, lat)

paraphrase_text(api_key) ==
    LET auth == get_current_user_by_api_key(keys, api_key)
    IN  IF auth.kind # "ok" THEN Rejected("paraphrase", api_key, auth)
        ELSE \E try \in ParaphraseTries, db \in DbOutcomes, ip \in Ips,
                ua \in UserAgents, lat \in Latencies :
                Handled("paraphrase", "/paraphrase", api_key, auth.id,
                        try, db, ip, ua, lat)

image_to_text(api_key) ==
    LET auth == get_current_user_by_api_key(keys, api_key)
    IN  IF auth.kind # "ok" THEN Rejected("image_to_text", api_key, auth)
        ELSE \E try \in ImageToTextTries, db \in DbOutcomes, ip \in Ips,
                ua \in UserAgents, lat \in Latencies :
                Handled("image_to_text", "/image-to-text", api_key, auth.id,
                        try, db, ip, ua, lat)

GatedOps == {"summarize", "paraphrase", "image_to_text"}

(* ------------------------------ behaviour ------------------------------ *)
\* POST /api-keys: the body is validated, then the service is called.
Create ==
    \E u \in Users, n \in NameInputs, p \in Prefixes :
        IF APIKeyCreate(n) THEN create_api_key(u, n, p)
        ELSE RequestValidationError(u, n)

\* APIKeyService.create_api_key called without the endpoint in front of it.
ServiceCreate ==
    \E u \in Users, n \in NameInputs, p \in Prefixes : create_api_key(u, n, p)

Verify == \E k \in KeySpace : verify_and_update_key(k)
Revoke == \E id \in 1 .. MaxKeys, u \in Users : revoke_api_key(id, u)

List == \E u \in Users : get_user_api_keys(u)
Stats == \E id \in 1 .. MaxKeys, u \in Users : get_key_usage_stats(id, u)

Summarize == \E k \in KeySpace : summarize_text(k)
Paraphrase == \E k \in KeySpace : paraphrase_text(k)
ImageToText == \E k \in KeySpace : image_to_text(k)

GetUser == \E k \in KeySpace : get_user_by_api_key(k)

\* The two methods that accept a raw key, over credentials that are issued
\* and revoked.
NextPaths == Create \/ Revoke \/ Verify \/ GetUser

SpecPaths == Init /\ [][NextPaths]_vars

\* The key-management API: the service methods that read or write api_keys.
NextKeys == Create \/ Verify \/ Revoke \/ List \/ Stats

\* The gated endpoints: each runs verify_and_update_key as its dependency and
\* then its handler.
NextGated == Summarize \/ Paraphrase \/ ImageToText

Next == NextKeys \/ NextGated

\* Every operation.
Spec == Init /\ [][Next]_vars

\* The key-management API alone.  A gated request changes api_keys only
\* through verify_and_update_key, which Verify performs as well.
SpecKeys == Init /\ [][NextKeys]_vars

\* Issuance through the endpoint and by calling the service method, and the
\* listing that shows what was stored.
NextService == Create \/ ServiceCreate \/ List

SpecService == Init /\ [][NextService]_vars

\* The paths and status codes the gated handlers pass to log_api_usage.
Endpoints == {"/summarize", "/image-to-text"}
StatusCodes == {200, 500}

\* One usage record written for a stored credential.
RecordUsage ==
    \E id \in DOMAIN keys, e \in Endpoints, st \in StatusCodes, db \in DbOutcomes,
       ip \in Ips, ua \in UserAgents, lat \in Latencies :
        log_api_usage(id, e, "POST", st, lat, ip, ua, db)

\* Issuance next to a ledger that fills.
NextIssue == Create \/ RecordUsage

SpecIssue == Init /\ [][NextIssue]_vars

\* The store once two owners have issued one credential each.
LedgerKeys ==
    <<NewRow(1, 1, CHOOSE n \in Labels : TRUE, Key(10, 1), 0),
      NewRow(2, 2, CHOOSE n \in Labels : TRUE, Key(11, 2), 0)>>

InitLedger ==
    /\ keys = LedgerKeys
    /\ usage = <<>>
    /\ now = 0
    /\ issued = <<Key(10, 1), Key(11, 2)>>
    /\ revoked = {}
    /\ disclosed = <<1, 1>>
    /\ resp = NoResp
    /\ sessions = NoSessions

\* The usage ledger and the statistics read from it, for credentials that
\* may be revoked meanwhile.
NextLedger == RecordUsage \/ Stats \/ Revoke

SpecLedger == InitLedger /\ [][NextLedger]_vars

\* Every method of APIKeyService that the endpoints call, on a small store.
StoreBound ==
    /\ Len(keys') <= StoreKeys
    /\ Len(usage') <= StoreUsage
    /\ now' <= StoreTime

NextStore ==
    \/ Create /\ StoreBound
    \/ Verify /\ StoreBound
    \/ Revoke /\ StoreBound
    \/ List /\ StoreBound
    \/ RecordUsage /\ StoreBound
    \/ Stats /\ StoreBound

SpecStore == Init /\ [][NextStore]_vars

\* Ledgers longer than the recent-usage feed.  Row i of a ledger of n rows:
\* the rows come from the store in insertion order ("asc"), in the opposite
\* order ("desc"), or pairwise within the same clock reading ("ties"); they
\* belong to one credential or alternate between two.
LedgerRow(i, n, order, owners) ==
    APIKeyUsage(IF owners = "one" THEN 1 ELSE 1 + (i % 2),
                IF i % 2 = 0 THEN "/summarize" ELSE "/image-to-text", "POST",
                IF i % 3 = 0 THEN 500 ELSE 200, 1 + (i % 2),
                CHOOSE ip \in Ips : TRUE, CHOOSE ua \in UserAgents : TRUE,
                IF order = "asc" THEN i
                ELSE IF order = "desc" THEN n + 1 - i ELSE (i + 1) \div 2)

Ledgers ==
    {[i \in 1 .. n |-> LedgerRow(i, n, order, owners)] :
        n \in 0 .. MaxLedger, order \in {"asc", "desc", "ties"},
        owners \in {"one", "two"}}

\* The store of InitLedger with a ledger already written.
InitRecent ==
    /\ keys = <<NewRow(1, 1, CHOOSE n \in Labels : TRUE, Key(10, 1), 0),
                NewRow(2, 2, CHOOSE n \in Labels : TRUE, Key(11, 2), 0)>>
    /\ usage \in Ledgers
    /\ now = MaxLedger
    /\ issued = <<Key(10, 1), Key(11, 2)>>
    /\ revoked = {}
    /\ disclosed = <<1, 1>>
    /\ resp = NoResp
    /\ sessions = NoSessions

\* get_key_usage_stats applied to a written ledger.
SpecRecent == InitRecent /\ [][Stats]_vars

\* The rows the table api_keys may hold when the service starts: none, or one
\* credential issued earlier whose status column holds any KeyStatus that
\* leaves revoked_at empty.
StoredTables ==
    {<<>>} \cup
    {<<[NewRow(1, u, n, Key(p, 1), 0) EXCEPT !.status = st]>> :
        u \in Users, n \in Labels, p \in Prefixes, st \in {ACTIVE, EXPIRED}}

InitStored ==
    /\ keys \in StoredTables
    /\ usage = <<>>
    /\ now = 0
    /\ issued = [i \in DOMAIN keys |-> Key(Head(keys[i].key_prefix)[1], i)]
    /\ revoked = {}
    /\ disclosed = [i \in DOMAIN keys |-> 1]
    /\ resp = NoResp
    /\ sessions = NoSessions

\* The key-management API over a store that already holds rows.
SpecStored == InitStored /\ [][NextKeys]_vars

(* ------------------ sessions running at the same time ------------------ *)
\* Each request runs its service method in an AsyncSession of its own, on a
\* connection of its own (READ COMMITTED: a statement reads what is committed
\* when it runs). A method gives way to other requests at each await.

\* An UPDATE that writes the row back whole, as the session loaded it.
FlushTouch_WholeRow(ks, db_key, t) ==
    [ks EXCEPT ![db_key.id] = [db_key EXCEPT !.last_used_at = t]]

\* session.commit() after db_key.last_used_at was assigned: the unit of work
\* flushes the assigned attribute alone,
\* UPDATE api_keys SET last_used_at = t WHERE id = db_key.id
FlushTouch(ks, db_key, t) == [ks EXCEPT ![db_key.id].last_used_at = t]

\* verify_and_update_key up to the end of its first await: the query,
\* scalar_one_or_none and verify_api_key. A key that is not accepted makes
\* the method return (or raise) at once.
verify_execute(s, api_key) ==
    LET r == VerifyResult(keys, api_key)
    IN  /\ sessions[s].pc = "idle"
        /\ sessions' = [sessions EXCEPT ![s] =
              [Entered EXCEPT !.pc = IF r.kind = "ok" THEN "loaded" ELSE "done",
                           !.op = "verify",
                           !.api_key = api_key,
                           !.db_key = IF r.kind = "ok"
                                      THEN <<keys[r.id]>> ELSE <<>>,
                           !.result = r,
                           !.read_now = now,
                           !.read_revoked = revoked]]
        /\ UNCHANGED <<keys, usage, now, issued, revoked, disclosed, resp>>

\* db_key.last_used_at = datetime.utcnow()
verify_utcnow(s) ==
    /\ sessions[s].op = "verify"
    /\ sessions[s].pc = "loaded"
    /\ now < MaxTime
    /\ now' = now + 1
    /\ sessions' = [sessions EXCEPT ![s].pc = "dirty", ![s].t = now + 1]
    /\ UNCHANGED <<keys, usage, issued, revoked, disclosed, resp>>

\* session.commit(); session.refresh(db_key); return db_key
verify_commit(s) ==
    /\ sessions[s].op = "verify"
    /\ sessions[s].pc = "dirty"
    /\ keys' = FlushTouch(keys, Head(sessions[s].db_key), sessions[s].t)
    /\ sessions' = [sessions EXCEPT
          ![s].pc = "done",
          ![s].db_key = <<keys'[sessions[s].result.id]>>,
          ![s].commit_revoked = revoked]
    /\ UNCHANGED <<usage, now, issued, revoked, disclosed, resp>>

\* revoke_api_key up to the end of its first await: the query and
\* scalar_one_or_none. Without a row the method returns None at once.
revoke_execute(s, key_id, user_id) ==
    LET api_key == scalar_one_or_none(RevokeRows(keys, key_id, user_id))
    IN  /\ sessions[s].pc = "idle"
        /\ sessions' = [sessions EXCEPT ![s] =
              [Entered EXCEPT !.pc = IF api_key.kind = "one"
                                  THEN "loaded" ELSE "done",
                           !.op = "revoke",
                           !.key_id = key_id,
                           !.user_id = user_id,
                           !.db_key = IF api_key.kind = "one"
                                      THEN <<keys[api_key.id]>> ELSE <<>>,
                           !.result = IF api_key.kind = "one"
                                      THEN [kind |-> "ok", id |-> api_key.id]
                                      ELSE [kind |-> "none", id |-> 0],
                           !.read_now = now,
                           !.read_revoked = revoked]]
        /\ UNCHANGED <<keys, usage, now, issued, revoked, disclosed, resp>>

\* api_key.status = KeyStatus.REVOKED; api_key.revoked_at = datetime.utcnow()
revoke_utcnow(s) ==
    /\ sessions[s].op = "revoke"
    /\ sessions[s].pc = "loaded"
    /\ now < MaxTime
    /\ now' = now + 1
    /\ sessions' = [sessions EXCEPT ![s].pc = "dirty", ![s].t = now + 1]
    /\ UNCHANGED <<keys, usage, issued, revoked, disclosed, resp>>

\* session.commit(); session.refresh(api_key); return api_key
revoke_commit(s) ==
    /\ sessions[s].op = "revoke"
    /\ sessions[s].pc = "dirty"
    /\ keys' = RevokeUpdate(keys, sessions[s].result.id, sessions[s].t)
    /\ revoked' = revoked \cup {sessions[s].result.id}
    /\ sessions' = [sessions EXCEPT
          ![s].pc = "done",
          ![s].db_key = <<keys'[sessions[s].result.id]>>,
          ![s].commit_revoked = revoked']
    /\ UNCHANGED <<usage, now, issued, disclosed, resp>>

VerifyExecute == \E s \in Sessions, k \in KeySpace : verify_execute(s, k)

VerifyUtcnow == \E s \in Sessions : verify_utcnow(s)

VerifyCommit == \E s \in Sessions : verify_commit(s)

RevokeExecute ==
    \E s \in Sessions, id \in DOMAIN keys, u \in Users : revoke_execute(s, id, u)

RevokeUtcnow == \E s \in Sessions : revoke_utcnow(s)

RevokeCommit == \E s \in Sessions : revoke_commit(s)

\* Calls of verify_and_update_key in sessions that overlap.
NextTouch == VerifyExecute \/ VerifyUtcnow \/ VerifyCommit

SpecTouch == InitLedger /\ [][NextTouch]_vars

\* Calls of verify_and_update_key and revoke_api_key in sessions that overlap.
NextRace == NextTouch \/ RevokeExecute \/ RevokeUtcnow \/ RevokeCommit

SpecRace == InitLedger /\ [][NextRace]_vars

\* Calls of verify_and_update_key that overlap, for credentials issued
\* meanwhile.
NextIssueTouch == Create \/ NextTouch

SpecIssueTouch == Init /\ [][NextIssueTouch]_vars

(* ------------------------------- claims -------------------------------- *)
\* Every string a response carries towards the caller.
RespStrings(r) ==
    ItemStrings(r.items)
    \cup (IF "stats" \in DOMAIN r THEN StatsStrings(r.stats) ELSE {})

\* The string-valued columns of a stored credential.
StoredStrings(k) == {k.key_hash, k.key_prefix, k.name}

\* Two distinct active credentials whose raw keys share their first 8
\* characters.
Collide(a, b) ==
    /\ a # b
    /\ keys[a].status = ACTIVE /\ keys[b].status = ACTIVE
    /\ Slice(issued[a], PrefixLen) = Slice(issued[b], PrefixLen)

InvalidKey == [kind |-> "response", status |-> 401, detail |-> "Invalid API key"]

\* C1: a verify_and_update_key of the raw key that create_api_key has just
\* returned succeeds and returns the credential create_api_key stored.
C1_IssueThenVerify ==
    [][(resp.op = "create" /\ resp.status = 200 /\ resp'.op = "verify"
        /\ resp'.api_key = issued[resp.id])
       => (resp'.result.kind = "ok" /\ resp'.result.id = resp.id)]_vars

\* C2: once revoke_api_key has succeeded for a credential, a verification of
\* its raw key returns no credential, and a gated request presenting it gets
\* the 401 'Invalid API key' error.
C2_RevokedNeverVerifies ==
    \A id \in revoked :
        /\ (resp.op = "verify" /\ resp.api_key = issued[id])
               => resp.result.kind = "none"
        /\ (resp.op \in GatedOps /\ resp.api_key = issued[id])
               => resp.outcome = InvalidKey

\* C3: revoke_api_key on a credential whose revocation already succeeded
\* reports not-found and leaves its status and revoked_at as they were.
C3_RevokeOnce ==
    [][\A id \in revoked :
         (resp'.op = "revoke" /\ resp'.key_id = id)
         => /\ resp'.status = 404
            /\ resp'.items = {}
            /\ keys'[id].status = keys[id].status
            /\ keys'[id].revoked_at = keys[id].revoked_at]_vars

C3_Witness ==
    /\ resp.op = "revoke" /\ resp.status = 404
    /\ resp.key_id \in revoked
    /\ keys[resp.key_id].user_id = resp.user_id
    /\ keys[resp.key_id].status = REVOKED
    /\ keys[resp.key_id].revoked_at < now

\* C4: when two distinct active credentials share their 8-character prefix,
\* verifying the raw key of either returns that credential.
C4_PrefixCollision ==
    \A a \in DOMAIN keys, b \in DOMAIN keys :
        (Collide(a, b) /\ resp.op = "verify" /\ resp.api_key = issued[a])
        => (resp.result.kind = "ok" /\ resp.result.id = a)

\* C5: no stored string column of any credential equals a raw key returned
\* at issuance; the row keeps the key's digest and its first 8 characters.
C5_RawNeverStored ==
    \A id \in DOMAIN keys :
        /\ \A j \in DOMAIN issued : issued[j] \notin StoredStrings(keys[id])
        /\ keys[id].key_hash = get_api_key_hash(issued[id])
        /\ keys[id].key_prefix = Slice(issued[id], PrefixLen)
        /\ StrLen(keys[id].key_prefix) = PrefixLen
        /\ StrLen(keys[id].key_hash) = DigestLen

C5_Witness ==
    /\ Len(keys) >= 2
    /\ \E id \in DOMAIN keys : keys[id].last_used_at # NULL
    /\ \E id \in DOMAIN keys : keys[id].status = REVOKED

\* C6: each raw key has been part of exactly one response, the response of
\* the create_api_key call that made it; no response of list, revoke,
\* verify, usage stats or a gated request carries a raw key.
C6_DisclosedOnce ==
    /\ DOMAIN disclosed = DOMAIN issued
    /\ \A id \in DOMAIN issued :
        /\ disclosed[id] = 1
        /\ issued[id] \in RespStrings(resp) => (resp.op = "create" /\ resp.id = id)

C6_Witness ==
    /\ resp.op = "list"
    /\ Cardinality(resp.items) >= 2
    /\ \E id \in DOMAIN keys : keys[id].last_used_at # NULL

\* C7: every gated request whose key passed verification appends exactly one
\* usage record, on every exit path of the handler (the store accepting the
\* write).
C7_OneRecordPerRequest ==
    (resp.op \in GatedOps /\ resp.verified /\ resp.db = "ok")
    => resp.appended = 1

\* C8: when the write of the usage record fails, the caller still receives
\* the response or error the handler had produced.
C8_LogFailureNotPropagated ==
    (resp.op \in GatedOps /\ resp.verified /\ resp.db = "fail")
    => resp.outcome = resp.original

\* C9: the status_code of the usage record a gated request wrote equals the
\* HTTP status of the outcome the request had.
C9_RecordedStatusIsOutcome ==
    (resp.op \in GatedOps /\ resp.appended = 1)
    => /\ resp.outcome.kind = "response"
       /\ usage[Len(usage)].status_code = resp.outcome.status

\* C10: revoke_api_key for an id that does not exist or that belongs to
\* another owner reports not-found and leaves every stored credential
\* unchanged.
C10_RevokeOwnership ==
    [][(resp'.op = "revoke"
        /\ (resp'.key_id \notin DOMAIN keys
            \/ keys[resp'.key_id].user_id # resp'.user_id))
       => (resp'.status = 404 /\ resp'.items = {} /\ keys' = keys)]_vars

C10_Witness ==
    /\ resp.op = "revoke" /\ resp.status = 404
    /\ resp.key_id \in DOMAIN keys
    /\ keys[resp.key_id].user_id # resp.user_id
    /\ keys[resp.key_id].status = ACTIVE
    /\ keys[resp.key_id].revoked_at = NULL

C12_IssuePostcondition ==
    [][(resp'.op = "create" /\ resp'.status = 200)
       => /\ Len(keys') = Len(keys) + 1
          /\ SubSeq(keys', 1, Len(keys)) = keys
          /\ usage' = usage
          /\ Cardinality(resp'.items) = 1
          /\ LET k == keys'[Len(keys')]
                 raw == (CHOOSE it \in resp'.items : TRUE).api_key
             IN  /\ k.id = resp'.id
                 /\ k.user_id = resp'.user_id
                 /\ k.name = resp'.name
                 /\ k.status = ACTIVE
                 /\ k.last_used_at = NULL
                 /\ k.revoked_at = NULL
                 /\ k.key_prefix = Slice(raw, PrefixLen)
                 /\ k.key_hash = get_api_key_hash(raw)]_vars

C12_Witness ==
    /\ resp.op = "create" /\ resp.status = 200
    /\ Len(keys) >= 2
    /\ usage # <<>>
    /\ keys[Len(keys)].created_at > usage[Len(usage)].created_at

\* C13: a create request whose name is empty or longer than 100 characters
\* gets a validation error and the table api_keys stays as it was.
C13_LabelValidated ==
    [][(resp'.op = "create" /\ ~APIKeyCreate(resp'.name))
       => (resp'.status = 422 /\ keys' = keys)]_vars

\* C14: a successful verify_and_update_key sets last_used_at of the credential
\* whose raw key was presented to the clock reading and changes no other
\* column, row or usage record; a failed one changes nothing in the store.
C14_VerifyTouch ==
    [][resp'.op = "verify"
       => /\ usage' = usage
          /\ IF resp'.result.kind = "ok"
             THEN LET id == resp'.result.id
                  IN  /\ issued[id] = resp'.api_key
                      /\ now' > now
                      /\ keys' = [keys EXCEPT ![id].last_used_at = now']
             ELSE keys' = keys]_vars

C14_Witness ==
    /\ resp.op = "verify" /\ resp.result.kind = "none"
    /\ \E i \in DOMAIN keys :
          /\ keys[i].status = ACTIVE
          /\ keys[i].key_prefix = Slice(resp.api_key, PrefixLen)
          /\ keys[i].key_hash # get_api_key_hash(resp.api_key)
          /\ keys[i].last_used_at = NULL
    /\ \E j \in DOMAIN keys : keys[j].last_used_at # NULL
    /\ \E j \in DOMAIN keys : keys[j].status = REVOKED

\* C15: every gated request that presents a key which is not the raw key of
\* an active credential (unknown prefix, known prefix with another
\* fingerprint, or the key of a revoked credential) gets the same outcome,
\* the 401 'Invalid API key' response.
C15_FailuresIndistinguishable ==
    (/\ resp.op \in GatedOps
     /\ ~ \E i \in DOMAIN keys :
            issued[i] = resp.api_key /\ keys[i].status = ACTIVE)
    => resp.outcome = InvalidKey

\* C16: get_user_api_keys returns, once each, exactly the credentials of the
\* given owner whose revocation has not succeeded, and changes no stored row.
C16_ListExact ==
    [][resp'.op = "list"
       => LET mine == {i \in DOMAIN keys :
                         keys[i].user_id = resp'.user_id /\ i \notin revoked}
              got == resp'.api_keys
          IN  /\ keys' = keys
              /\ usage' = usage
              /\ Len(got) = Cardinality(mine)
              /\ {got[i] : i \in DOMAIN got} = {APIKeyResponse(keys[i]) : i \in mine}
              /\ \A i \in DOMAIN got : got[i].status # REVOKED]_vars

C16_Witness ==
    /\ resp.op = "list"
    /\ Len(resp.api_keys) >= 1
    /\ \E i \in revoked : keys[i].user_id = resp.user_id
    /\ \E i \in DOMAIN keys : keys[i].user_id # resp.user_id

\* C17: get_user_api_keys returns the credentials ordered by creation time,
\* most recent first.
C17_ListOrder ==
    resp.op = "list"
    => \A i, j \in DOMAIN resp.api_keys :
         i < j => resp.api_keys[i].created_at >= resp.api_keys[j].created_at

\* The usage records written for the credential a statistics request names.
RecordsOf(key_id) == {i \in DOMAIN usage : usage[i].api_key_id = key_id}

\* The sum of the values of a dict.
RECURSIVE SumValues(_)
SumValues(d) ==
    IF DOMAIN d = {} THEN 0
    ELSE LET e == CHOOSE x \in DOMAIN d : TRUE
         IN  d[e] + SumValues([x \in DOMAIN d \ {e} |-> d[x]])

\* C18: get_key_usage_stats for a credential of the caller that has no usage
\* record returns zero counts, an average of 0.0, an empty endpoint map and
\* an empty recent list, and no error.
C18_EmptyLedgerStats ==
    (/\ resp.op = "stats"
     /\ resp.key_id \in DOMAIN keys
     /\ keys[resp.key_id].user_id = resp.user_id
     /\ RecordsOf(resp.key_id) = {})
    => /\ resp.status = 200
       /\ resp.stats.total_requests = 0
       /\ resp.stats.successful_requests = 0
       /\ resp.stats.failed_requests = 0
       /\ resp.stats.average_response_time.num = 0
       /\ resp.stats.average_response_time.den = 1
       /\ DOMAIN resp.stats.usage_by_endpoint = {}
       /\ Len(resp.stats.recent_usage) = 0

C18_Witness ==
    /\ resp.op = "stats" /\ resp.status = 200
    /\ RecordsOf(resp.key_id) = {}
    /\ usage # <<>>

\* C19: get_key_usage_stats counts the usage records of the named credential
\* only: total_requests is their number, successful_requests the number with
\* status_code below 400, failed_requests the number with 400 or above.
C19_CountsExact ==
    (resp.op = "stats" /\ resp.status = 200)
    => LET mine == RecordsOf(resp.key_id)
       IN  /\ resp.stats.total_requests = Cardinality(mine)
           /\ resp.stats.successful_requests =
                  Cardinality({i \in mine : usage[i].status_code < 400})
           /\ resp.stats.failed_requests =
                  Cardinality({i \in mine : usage[i].status_code >= 400})
           /\ resp.stats.successful_requests + resp.stats.failed_requests
                  = resp.stats.total_requests

C19_Witness ==
    /\ resp.op = "stats" /\ resp.status = 200
    /\ resp.stats.failed_requests >= 1
    /\ \E i \in DOMAIN usage : usage[i].api_key_id # resp.key_id

\* C20: usage_by_endpoint has a key for exactly the endpoints of the named
\* credential's usage records, each count is the number of those records
\* with that endpoint, and the counts add up to total_requests.
C20_HistogramExact ==
    (resp.op = "stats" /\ resp.status = 200)
    => LET mine == RecordsOf(resp.key_id)
           hist == resp.stats.usage_by_endpoint
       IN  /\ DOMAIN hist = {usage[i].endpoint : i \in mine}
           /\ \A e \in DOMAIN hist :
                 /\ hist[e] = Cardinality({i \in mine : usage[i].endpoint = e})
                 /\ hist[e] >= 1
           /\ SumValues(hist) = resp.stats.total_requests

C20_Witness ==
    /\ resp.op = "stats" /\ resp.status = 200
    /\ \E e \in DOMAIN resp.stats.usage_by_endpoint :
          resp.stats.usage_by_endpoint[e] >= 2

\* The number of places of a list that hold the value x.
Count(seq, x) == Cardinality({i \in DOMAIN seq : seq[i] = x})

\* C21: recent_usage has min(N, 10) entries for a credential with N usage
\* records, ordered from newest to oldest; every entry is the copy of a
\* record of the credential, no record is copied more often than it occurs,
\* and every record newer than the oldest entry is in the list.
C21_RecentFeed ==
    (resp.op = "stats" /\ resp.status = 200)
    => LET mine == RecordsOf(resp.key_id)
           all == [i \in DOMAIN usage |-> APIKeyUsageEntry(usage[i])]
           feed == resp.stats.recent_usage
           n == Cardinality(mine)
       IN  /\ Len(feed) = IF n < RecentLimit THEN n ELSE RecentLimit
           /\ \A i, j \in DOMAIN feed :
                 i < j => feed[i].created_at >= feed[j].created_at
           /\ \A i \in DOMAIN feed :
                 /\ \E m \in mine : feed[i] = all[m]
                 /\ Count(feed, feed[i])
                      <= Cardinality({m \in mine : all[m] = feed[i]})
           /\ \A m \in mine :
                 (feed # <<>> /\ all[m].created_at > feed[Len(feed)].created_at)
                 => Count(feed, all[m])
                      = Cardinality({k \in mine : all[k] = all[m]})

C21_Witness ==
    /\ resp.op = "stats" /\ resp.status = 200
    /\ Cardinality(RecordsOf(resp.key_id)) > RecentLimit
    /\ Len(resp.stats.recent_usage) = RecentLimit
    /\ usage[1].created_at > usage[Len(usage)].created_at

\* C22: get_key_usage_stats reports not-found exactly when the named
\* credential does not exist or belongs to another owner, returns the
\* statistics otherwise, whatever the credential's status, and changes no
\* stored row.
C22_StatsAccess ==
    [][resp'.op = "stats"
       => LET owned == /\ resp'.key_id \in DOMAIN keys
                       /\ keys[resp'.key_id].user_id = resp'.user_id
          IN  /\ resp'.status = IF owned THEN 200 ELSE 404
              /\ keys' = keys
              /\ usage' = usage]_vars

C22_Witness ==
    /\ resp.op = "stats" /\ resp.status = 200
    /\ resp.key_id \in revoked
    /\ keys[resp.key_id].status = REVOKED
    /\ resp.stats.total_requests >= 1

\* C23: two stored credentials of the same owner with the same name have
\* different ids, different hashes and different prefixes.
C23_SameLabelDistinct ==
    \A a \in DOMAIN keys, b \in DOMAIN keys :
        (a # b /\ keys[a].user_id = keys[b].user_id /\ keys[a].name = keys[b].name)
        => /\ keys[a].id # keys[b].id
           /\ keys[a].key_hash # keys[b].key_hash
           /\ keys[a].key_prefix # keys[b].key_prefix
C29_StatusAgreesWithRevokedAt ==
    /\ \A i \in DOMAIN keys :
          /\ keys[i].status = REVOKED <=> keys[i].revoked_at # NULL
          /\ keys[i].status = ACTIVE <=> keys[i].revoked_at = NULL
    /\ \A u \in Users, k \in KeySpace :
          ActiveByPrefix(keys, k) \cap {i \in DOMAIN keys : keys[i].user_id = u}
              = {i \in OwnerRows(keys, u) : keys[i].key_prefix = Slice(k, PrefixLen)}

\* C29 witness: a credential that was verified and then revoked.
C29_Witness ==
    \E i \in DOMAIN keys :
        /\ keys[i].status = REVOKED
        /\ keys[i].last_used_at # NULL
        /\ keys[i].last_used_at < keys[i].revoked_at

\* C25: when revoke_api_key and verify_and_update_key run on one credential
\* in separate sessions, a verification whose query runs after the revoke
\* committed does not accept the key, and a credential whose revoke has
\* committed stays stored as revoked with its revoked_at, also after a
\* verification that loaded the row earlier writes last_used_at.
C25_RevokeVerifyRace ==
    /\ \A s \in Sessions :
          (/\ sessions[s].op = "verify"
           /\ \E i \in sessions[s].read_revoked :
                 keys[i].key_hash = get_api_key_hash(sessions[s].api_key))
          => sessions[s].result.kind # "ok"
    /\ \A i \in revoked :
          keys[i].status = REVOKED /\ keys[i].revoked_at # NULL

\* C25 witness: a verification loaded the row as active, the revoke
\* committed, and the verification then committed its last_used_at.
C25_Witness ==
    \E s \in Sessions :
        /\ sessions[s].op = "verify"
        /\ sessions[s].pc = "done"
        /\ sessions[s].result.kind = "ok"
        /\ sessions[s].result.id \notin sessions[s].read_revoked
        /\ sessions[s].result.id \in sessions[s].commit_revoked
        /\ keys[sessions[s].result.id].last_used_at = sessions[s].t

\* The sessions whose verify_and_update_key has returned credential i.
Verified(i) ==
    {s \in Sessions : /\ sessions[s].op = "verify"
                      /\ sessions[s].pc = "done"
                      /\ sessions[s].result = [kind |-> "ok", id |-> i]}

\* The row of credential i as create_api_key stored it.
Created(i) ==
    NewRow(i, keys[i].user_id, keys[i].name, issued[i], keys[i].created_at)

\* C26: when calls of verify_and_update_key overlap in any interleaving, each
\* call with the raw key of a stored active credential is accepted for that
\* credential; the stored last_used_at of a verified credential is the time
\* one of its calls wrote, and every other column of it and every other
\* credential is as it was stored at creation.
C26_ConcurrentVerify ==
    /\ \A s \in Sessions :
          (/\ sessions[s].op = "verify"
           /\ \E i \in DOMAIN issued :
                 /\ issued[i] = sessions[s].api_key
                 /\ keys[i].created_at <= sessions[s].read_now)
          => /\ sessions[s].result.kind = "ok"
             /\ issued[sessions[s].result.id] = sessions[s].api_key
    /\ \A i \in DOMAIN keys :
          IF Verified(i) = {}
          THEN keys[i] = Created(i)
          ELSE \E s \in Verified(i) :
                 keys[i] = [Created(i) EXCEPT !.last_used_at = sessions[s].t]

\* C27: for every gated request whose key was verified, the reading of the
\* clock from which the latency is measured is taken before the key is
\* verified, so the latency of the usage record is the time from the arrival
\* of the request to the finally block, the Verify step included.
C27_LatencyCoversVerify ==
    (resp.op \in GatedOps /\ resp.verified)
    => /\ resp.clock.start_time < resp.clock.verified
       /\ resp.appended = 1
          => usage[Len(usage)].response_time = resp.clock.finally

\* C28: the comparison of the fingerprint of a raw key with the stored
\* fingerprint takes the same time however many leading characters of the
\* two agree: every comparison examines all DigestLen characters.
C28_ConstantTimeCompare ==
    (resp.op = "verify" /\ resp.examined # NULL) => resp.examined = DigestLen

\* C30: in every reachable state and for every raw key, get_user_by_api_key
\* accepts the key exactly when verify_and_update_key accepts it, both accept
\* for the same credential, and both leave the same store behind.
C30_PathsAgree ==
    \A k \in KeySpace :
        /\ GetUserResult(keys, k).kind = "ok" <=> VerifyResult(keys, k).kind = "ok"
        /\ GetUserResult(keys, k).id = VerifyResult(keys, k).id
        /\ GetUserTouch(keys, k, now + 1) = VerifyTouch(keys, k, now + 1)

====
